---------------------------- MODULE Spec2Model ----------------------------
(***************************************************************************)
(* Model of python-multitest.py: the per-proxy test function test_proxy,   *)
(* the status extraction from error text, and the batch runner             *)
(* process_proxies with its ThreadPoolExecutor and as_completed loop.      *)
(*                                                                         *)
(* Python strings are sequences of one-character strings, so that lower(), *)
(* concatenation and the regular expression are computed, not assumed.     *)
(* None and a missing dictionary key are one-element sequences whose       *)
(* element is not a character.                                             *)
(***************************************************************************)
EXTENDS Integers, Sequences, FiniteSets, TLC

VARIABLES
    rows,       \* list returned by read_csv(input_file)
    limit,      \* the limit argument of process_proxies
    cfg,        \* proxy_field, location_field, protocol_field
    network,    \* request outcomes the environment can produce in this run
    pc,         \* position of the orchestrating thread in process_proxies
    submitted,  \* rows after truncation, in submission order
    fstate,     \* state of each future: pending, running, finished
    outcome,    \* what each future holds: a ProxyResult or an exception
    yielded,    \* futures already produced by as_completed
    file,       \* rows written to the output file, header included
    console,    \* number of "Error processing proxy" lines printed
    trow,       \* record handed to a stand-alone test_proxy call
    tnet,       \* request outcome met by that call
    tret        \* what that call gave back

vars == <<rows, limit, cfg, network, pc, submitted, fstate, outcome,
          yielded, file, console, trow, tnet, tret>>

batchVars == <<rows, limit, network, pc, submitted, fstate, outcome,
               yielded, file, console>>

-----------------------------------------------------------------------------
(* Python values *)

None == <<"<None>">>
Absent == <<"<absent>">>

Truthy(v) == v # None /\ v # <<>>

\* a field-name argument left at its default None (or given as "") is falsy
NoField == ""
FieldGiven(f) == f # NoField

NoneText == <<"N", "o", "n", "e">>

\* str(v) as an f-string renders it
Format(v) == IF v = None THEN NoneText ELSE v

UpperChars == <<"A", "B", "C", "D", "E", "F", "G", "H", "I", "J", "K", "L", "M", "N", "O", "P", "Q", "R", "S", "T", "U", "V", "W", "X", "Y", "Z">>
LowerChars == <<"a", "b", "c", "d", "e", "f", "g", "h", "i", "j", "k", "l", "m", "n", "o", "p", "q", "r", "s", "t", "u", "v", "w", "x", "y", "z">>
DigitChars == <<"0", "1", "2", "3", "4", "5", "6", "7", "8", "9">>

LowerChar(c) ==
    IF \E k \in 1..Len(UpperChars) : UpperChars[k] = c
    THEN LowerChars[CHOOSE k \in 1..Len(UpperChars) : UpperChars[k] = c]
    ELSE c

\* str.lower()
Lower(s) == [k \in 1..Len(s) |-> LowerChar(s[k])]

IsDigit(c) == \E k \in 1..Len(DigitChars) : DigitChars[k] = c
DigitValue(c) == (CHOOSE k \in 1..Len(DigitChars) : DigitChars[k] = c) - 1
IsSpace(c) == c \in {" ", "\t", "\n", "\r"}

-----------------------------------------------------------------------------
(* extract_status_from_error *)

KwHttp == <<"h", "t", "t", "p">>
KwStatus == <<"s", "t", "a", "t", "u", "s">>

\* the keyword kw stands at position p of s, whatever the case
KeywordAt(s, p, kw) ==
    /\ p + Len(kw) - 1 <= Len(s)
    /\ Lower(SubSeq(s, p, p + Len(kw) - 1)) = kw

\* first position at or after p that holds no whitespace
SkipSpace(s, p) ==
    CHOOSE q \in p..(Len(s) + 1) :
        /\ \A k \in p..(q - 1) : IsSpace(s[k])
        /\ (q <= Len(s) => ~IsSpace(s[q]))

\* (\d{3}) after \s+ starting at position p; -1 when it does not match
DigitsAfterSpace(s, p) ==
    LET q == SkipSpace(s, p) IN
    IF /\ q > p
       /\ q + 2 <= Len(s)
       /\ \A k \in q..(q + 2) : IsDigit(s[k])
    THEN 100 * DigitValue(s[q]) + 10 * DigitValue(s[q + 1]) + DigitValue(s[q + 2])
    ELSE -1

\* the pattern (?:HTTP|status)\s+(\d{3}) anchored at p; -1 when no match
MatchAt(s, p) ==
    IF KeywordAt(s, p, KwHttp) /\ DigitsAfterSpace(s, p + Len(KwHttp)) >= 0
    THEN DigitsAfterSpace(s, p + Len(KwHttp))
    ELSE IF KeywordAt(s, p, KwStatus)
    THEN DigitsAfterSpace(s, p + Len(KwStatus))
    ELSE -1

extract_status_from_error(error_message) ==
    LET hits == {p \in 1..Len(error_message) : MatchAt(error_message, p) >= 0} IN
    IF hits = {} THEN 0
    ELSE MatchAt(error_message, CHOOSE p \in hits : \A q \in hits : p <= q)

-----------------------------------------------------------------------------
(* test_proxy *)

HttpsPrefix == <<"h", "t", "t", "p", "s">>
HttpPrefix == <<"h", "t", "t", "p">>
SchemeSep == <<":", "/", "/">>
Yes == <<"y", "e", "s">>
Unknown == <<"U", "n", "k", "n", "o", "w", "n">>
Failed == <<"F", "a", "i", "l", "e", "d">>
HTTPErrorTag == <<"H", "T", "T", "P", "E", "r", "r", "o", "r", ":", " ">>
ProxyErrorTag == <<"P", "r", "o", "x", "y", "E", "r", "r", "o", "r", ":", " ">>
ConnectionErrorTag == <<"C", "o", "n", "n", "e", "c", "t", "i", "o", "n", "E", "r", "r", "o", "r", ":", " ">>
TimeoutErrorTag == <<"T", "i", "m", "e", "o", "u", "t", "E", "r", "r", "o", "r", ":", " ">>
RequestExceptionTag == <<"R", "e", "q", "u", "e", "s", "t", "E", "x", "c", "e", "p", "t", "i", "o", "n", ":", " ">>

ProxyResult(proxy, status, location, real_location, error) ==
    [proxy |-> proxy, status |-> status, location |-> location,
     real_location |-> real_location, error |-> error]

NoResult == ProxyResult(<<>>, 0, <<>>, <<>>, <<>>)

Returned(result) == [kind |-> "return", exc |-> "", result |-> result]
Raised(exc) == [kind |-> "raise", exc |-> exc, result |-> NoResult]
NotCalled == [kind |-> "none", exc |-> "", result |-> NoResult]

\* the comparison without .lower()
ProtocolCaseSensitive(value) == IF value = Yes THEN HttpsPrefix ELSE HttpPrefix

\* "https" if row[protocol_field].lower() == "yes" else "http"
Protocol(value) == IF Lower(value) = Yes THEN HttpsPrefix ELSE HttpPrefix

\* lines 35-38: the exception raised before the try block, "" when none
SetupError(row, c) ==
    IF c.proxy_field \notin DOMAIN row THEN "KeyError"
    ELSE IF ~FieldGiven(c.protocol_field) THEN ""
    ELSE IF c.protocol_field \notin DOMAIN row THEN "KeyError"
    ELSE IF row[c.protocol_field] = None THEN "AttributeError"
    ELSE ""

\* lines 35-38: proxy_url
ProxyUrl(row, c) ==
    IF FieldGiven(c.protocol_field)
    THEN Protocol(row[c.protocol_field]) \o SchemeSep \o Format(row[c.proxy_field])
    ELSE row[c.proxy_field]

\* the classes an exception is an instance of
Mro(cls) ==
    CASE cls = "HTTPError" -> {"HTTPError", "RequestException"}
      [] cls = "ProxyError" -> {"ProxyError", "ConnectionError", "RequestException"}
      [] cls = "SSLError" -> {"SSLError", "ConnectionError", "RequestException"}
      [] cls = "ConnectTimeout" -> {"ConnectTimeout", "ConnectionError", "Timeout", "RequestException"}
      [] cls = "ConnectionError" -> {"ConnectionError", "RequestException"}
      [] cls = "ReadTimeout" -> {"ReadTimeout", "Timeout", "RequestException"}
      [] cls = "InvalidURL" -> {"InvalidURL", "RequestException"}
      [] cls = "JSONDecodeError" -> {"JSONDecodeError", "RequestException"}
      [] OTHER -> {cls}

\* lines 48-49: the exception raised inside the try body, "" when none
TryError(net) ==
    IF net.kind = "exception" THEN net.cls
    ELSE IF net.json = "invalid" THEN net.cls
    ELSE ""

\* except ConnectionError placed above except ProxyError
HandlersMisordered == <<"HTTPError", "ConnectionError", "ProxyError", "Timeout", "RequestException">>

Handlers == <<"HTTPError", "ProxyError", "ConnectionError", "Timeout", "RequestException">>

\* the first except clause that matches, "" when none does
Handler(cls) ==
    LET hits == {k \in 1..Len(Handlers) : Handlers[k] \in Mro(cls)} IN
    IF cls = "" \/ hits = {} THEN ""
    ELSE Handlers[CHOOSE k \in hits : \A j \in hits : k <= j]

\* line 49: response.json().get("timezone", "Unknown"); line 42 otherwise
RealLocation(net) ==
    IF TryError(net) # "" THEN None
    ELSE IF net.hasTz THEN net.tz ELSE Unknown

\* status_code as the try statement leaves it (lines 44, 50, 52, 56, 59)
StatusCode(net) ==
    LET h == Handler(TryError(net)) IN
    IF TryError(net) = "" THEN net.code
    ELSE IF h = "HTTPError" THEN (IF net.eresp = -1 THEN 0 ELSE net.eresp)
    ELSE IF h \in {"ProxyError", "ConnectionError"}
         THEN extract_status_from_error(net.msg)
    ELSE 0

\* error_message as the try statement leaves it (lines 45, 53-63)
ErrorMessage(net) ==
    LET h == Handler(TryError(net)) IN
    CASE h = "HTTPError" -> (IF net.eresp = -1 THEN <<>> ELSE HTTPErrorTag \o net.msg)
      [] h = "ProxyError" -> ProxyErrorTag \o net.msg
      [] h = "ConnectionError" -> ConnectionErrorTag \o net.msg
      [] h = "Timeout" -> TimeoutErrorTag \o net.msg
      [] h = "RequestException" -> RequestExceptionTag \o net.msg
      [] OTHER -> <<>>

\* lines 65-66
Normalize(status_code) == IF status_code < 200 THEN 0 ELSE status_code

\* line 70
Location(row, c) ==
    IF FieldGiven(c.location_field)
    THEN (IF c.location_field \in DOMAIN row THEN row[c.location_field] ELSE Unknown)
    ELSE Unknown

\* line 71: real_location or "Failed"
OrFailed(real_location) == IF Truthy(real_location) THEN real_location ELSE Failed

test_proxy(row, c, net) ==
    IF SetupError(row, c) # "" THEN Raised(SetupError(row, c))
    ELSE Returned(ProxyResult(ProxyUrl(row, c),
                              Normalize(StatusCode(net)),
                              Location(row, c),
                              OrFailed(RealLocation(net)),
                              ErrorMessage(net)))

-----------------------------------------------------------------------------
(* Inputs of a stand-alone test_proxy call *)

Addr == <<"1", ".", "2", ".", "3", ".", "4", ":", "8", "0">>
Loc == <<"U", "S">>
Tz == <<"U", "T", "C">>
MsgHttp403 == <<"H", "T", "T", "P", " ", "4", "0", "3">>
MsgStatus502 == <<"t", "u", "n", "n", "e", "l", " ", "S", "t", "a", "t", "u", "s", " ", " ", "5", "0", "2">>
MsgHttp150 == <<"h", "t", "t", "p", " ", "1", "5", "0", " ", "x">>
MsgRefused == <<"r", "e", "f", "u", "s", "e", "d">>
MsgHttps403 == <<"H", "T", "T", "P", "S", " ", "4", "0", "3">>
MsgHttp4030 == <<"H", "T", "T", "P", "\t", "4", "0", "3", "0">>
MsgTimedOut == <<"t", "i", "m", "e", "d", " ", "o", "u", "t">>
MsgBadUrl == <<"b", "a", "d", " ", "u", "r", "l">>
MsgBadJson == <<"b", "a", "d", " ", "j", "s", "o", "n">>

Fields == {"proxy", "Country", "Https"}

\* a csv.DictReader row: a short line leaves None, an unknown column no key
MakeRow(p, l, h) ==
    LET v == [f \in Fields |-> CASE f = "proxy" -> p [] f = "Country" -> l [] OTHER -> h] IN
    [f \in {g \in Fields : v[g] # Absent} |-> v[f]]

ProtocolValues ==
    {<<"y", "e", "s">>, <<"Y", "e", "s">>, <<"Y", "E", "S">>, <<"y", "E", "s">>,
     <<"n", "o">>, <<>>, <<"y", "e", "s", " ">>, <<"y", "e">>}

TestRows ==
    {MakeRow(p, l, h) : p \in {Addr, None, Absent},
                        l \in {Loc, None, Absent},
                        h \in ProtocolValues \cup {None, Absent}}

Configs ==
    [proxy_field : {"proxy"}, location_field : {NoField, "Country"},
     protocol_field : {NoField, "Https"}]

Response(code, json, hasTz, tz, cls) ==
    [kind |-> "response", code |-> code, json |-> json, hasTz |-> hasTz,
     tz |-> tz, cls |-> cls, msg |-> IF json = "invalid" THEN MsgBadJson ELSE <<>>,
     eresp |-> -1]

Exception(cls, msg, eresp) ==
    [kind |-> "exception", code |-> 0, json |-> "none", hasTz |-> FALSE,
     tz |-> None, cls |-> cls, msg |-> msg, eresp |-> eresp]

StatusCodes == {101, 200, 404}

\* bodies of a response: a JSON object with or without "timezone", or text
\* that is not JSON (response.json() then raises requests' JSONDecodeError,
\* or a plain ValueError with older releases of the library)
Responses ==
    {Response(c, "object", TRUE, tz, "") : c \in StatusCodes, tz \in {Tz, <<>>, None}}
    \cup {Response(c, "object", FALSE, None, "") : c \in StatusCodes}
    \cup {Response(c, "invalid", FALSE, None, cls) :
             c \in StatusCodes, cls \in {"JSONDecodeError", "ValueError"}}

Exceptions ==
    {Exception("ProxyError", m, -1) :
        m \in {MsgHttp403, MsgStatus502, MsgHttp150, MsgRefused, MsgHttps403, MsgHttp4030}}
    \cup {Exception("ConnectionError", m, -1) : m \in {MsgRefused, MsgHttp403}}
    \cup {Exception("SSLError", MsgRefused, -1),
          Exception("ConnectTimeout", MsgTimedOut, -1),
          Exception("ReadTimeout", MsgTimedOut, -1),
          Exception("InvalidURL", MsgBadUrl, -1),
          Exception("HTTPError", MsgHttp403, 403),
          Exception("HTTPError", MsgHttp150, 150),
          Exception("HTTPError", MsgRefused, -1)}

Nets == Responses \cup Exceptions

NoRow == MakeRow(Absent, Absent, Absent)
NoNet == Exception("", <<>>, -1)

-----------------------------------------------------------------------------
(* process_proxies *)

max_workers == 5
NoLimit == -1

MaxRows == 3
MaxLimit == 2
PoolRows == 6

DriverConfig ==
    [proxy_field |-> "proxy", location_field |-> "Country", protocol_field |-> "Https"]

GoodRow == MakeRow(Addr, Loc, <<"Y", "e", "s">>)
ShortRow == MakeRow(Addr, Loc, None)
BatchRows == {GoodRow, ShortRow}

Success == Response(200, "object", TRUE, Tz, "")
Refused == Exception("ConnectionError", MsgRefused, -1)

RECURSIVE SeqsUpTo(_, _)
SeqsUpTo(S, n) ==
    IF n = 0 THEN {<<>>}
    ELSE LET shorter == SeqsUpTo(S, n - 1) IN
         shorter \cup {Append(q, x) : q \in {r \in shorter : Len(r) = n - 1}, x \in S}

Min(a, b) == IF a < b THEN a ELSE b

\* lines 78-79: if limit: rows = rows[:limit]
Truncate(rs, lim) ==
    IF lim # NoLimit /\ lim # 0 THEN SubSeq(rs, 1, Min(lim, Len(rs))) ELSE rs

HeaderEntry ==
    [kind |-> "header", src |-> 0, cells |-> NoResult]

RowEntry(i, result) == [kind |-> "row", src |-> i, cells |-> result]

Running == {i \in DOMAIN fstate : fstate[i] = "running"}

\* a pool that starts a thread for every work item
WorkerAlwaysAvailable == TRUE

\* a worker thread of the pool is free to take a work item
WorkerAvailable == Cardinality(Running) < max_workers

\* the work queue is first in, first out
HeadOfQueue(i) == fstate[i] = "pending" /\ \A j \in 1..(i - 1) : fstate[j] # "pending"

\* an iterator that passes over futures holding an exception
NextCompletedSkipsFailed(i) ==
    fstate[i] = "finished" /\ i \notin yielded /\ outcome[i].kind = "return"

\* as_completed hands out each finished future once
NextCompleted(i) == fstate[i] = "finished" /\ i \notin yielded

\* a loop that stops at the first completed future
LoopStopsAtFirst == yielded # {} \/ DOMAIN fstate = {}

\* the for loop ends when as_completed has handed out every future
LoopExhausted == yielded = DOMAIN fstate

\* an except clause placed around the whole loop
AfterErrorAbort == "done"

\* where the loop goes after the except clause
AfterError == "collect"

TesterIdle == trow = NoRow /\ tnet = NoNet /\ tret = NotCalled

InitBatch(rowLists, limits, nets) ==
    /\ rows \in rowLists
    /\ limit \in limits
    /\ cfg = DriverConfig
    /\ network = nets
    /\ pc = "start"
    /\ submitted = <<>>
    /\ fstate = <<>>
    /\ outcome = <<>>
    /\ yielded = {}
    /\ file = <<>>
    /\ console = 0
    /\ TesterIdle

Init == InitBatch(SeqsUpTo(BatchRows, MaxRows), {NoLimit} \cup 0..MaxLimit, {Success, Refused})

\* lines 77-79
ReadAndTruncate ==
    /\ pc = "start"
    /\ submitted' = Truncate(rows, limit)
    /\ pc' = "open"
    /\ UNCHANGED <<rows, limit, cfg, network, fstate, outcome, yielded, file,
                   console, trow, tnet, tret>>

\* the file opened without writer.writeheader()
OpenOutputNoHeader ==
    /\ pc = "open"
    /\ file' = <<>>
    /\ pc' = "submit"
    /\ UNCHANGED <<rows, limit, cfg, network, submitted, fstate, outcome,
                   yielded, console, trow, tnet, tret>>

\* lines 85-87
OpenOutput ==
    /\ pc = "open"
    /\ file' = <<HeaderEntry>>
    /\ pc' = "submit"
    /\ UNCHANGED <<rows, limit, cfg, network, submitted, fstate, outcome,
                   yielded, console, trow, tnet, tret>>

\* line 90: executor.submit for the next row, or the comprehension ends
Submit ==
    /\ pc = "submit"
    /\ IF Len(fstate) < Len(submitted)
       THEN /\ fstate' = Append(fstate, "pending")
            /\ outcome' = Append(outcome, NotCalled)
            /\ pc' = pc
       ELSE /\ pc' = "collect"
            /\ UNCHANGED <<fstate, outcome>>
    /\ UNCHANGED <<rows, limit, cfg, network, submitted, yielded, file,
                   console, trow, tnet, tret>>

\* a pool worker takes the oldest queued call and enters test_proxy
StartTask(i) ==
    /\ i \in DOMAIN fstate
    /\ HeadOfQueue(i)
    /\ WorkerAvailable
    /\ fstate' = [fstate EXCEPT ![i] = "running"]
    /\ UNCHANGED <<rows, limit, cfg, network, pc, submitted, outcome, yielded,
                   file, console, trow, tnet, tret>>

\* test_proxy returns or raises; the future is done
FinishTask(i) ==
    /\ i \in DOMAIN fstate
    /\ fstate[i] = "running"
    /\ \E net \in network :
          outcome' = [outcome EXCEPT ![i] = test_proxy(submitted[i], cfg, net)]
    /\ fstate' = [fstate EXCEPT ![i] = "finished"]
    /\ UNCHANGED <<rows, limit, cfg, network, pc, submitted, yielded, file,
                   console, trow, tnet, tret>>

\* lines 92-98: one iteration of the as_completed loop
Collect(i) ==
    /\ pc = "collect"
    /\ i \in DOMAIN fstate
    /\ NextCompleted(i)
    /\ yielded' = yielded \cup {i}
    /\ IF outcome[i].kind = "return"
       THEN /\ file' = Append(file, RowEntry(i, outcome[i].result))
            /\ UNCHANGED <<console, pc>>
       ELSE /\ console' = console + 1
            /\ pc' = AfterError
            /\ UNCHANGED file
    /\ UNCHANGED <<rows, limit, cfg, network, submitted, fstate, outcome,
                   trow, tnet, tret>>

\* the loop ends, the executor shuts down, the file closes
Return ==
    /\ pc = "collect"
    /\ LoopExhausted
    /\ \A i \in DOMAIN fstate : fstate[i] = "finished"
    /\ pc' = "done"
    /\ UNCHANGED <<rows, limit, cfg, network, submitted, fstate, outcome,
                   yielded, file, console, trow, tnet, tret>>

Main == ReadAndTruncate \/ OpenOutput \/ Submit \/ (\E i \in DOMAIN fstate : Collect(i)) \/ Return

Next ==
    \/ ReadAndTruncate
    \/ OpenOutput
    \/ Submit
    \/ \E i \in DOMAIN fstate : StartTask(i)
    \/ \E i \in DOMAIN fstate : FinishTask(i)
    \/ \E i \in DOMAIN fstate : Collect(i)
    \/ Return

Spec == Init /\ [][Next]_vars

\* six rows for five workers
InitPool ==
    InitBatch({[i \in 1..PoolRows |-> IF i = 1 THEN r ELSE GoodRow] : r \in BatchRows},
              {NoLimit}, {Success})

SpecPool == InitPool /\ [][Next]_vars

\* the scheduler runs every thread that can run; each request returns or
\* times out
FairSpec ==
    /\ Spec
    /\ WF_vars(Main)
    /\ \A i \in 1..MaxRows : WF_vars(StartTask(i)) /\ WF_vars(FinishTask(i))

-----------------------------------------------------------------------------
(* A stand-alone call of test_proxy *)

InitTester ==
    /\ trow \in TestRows
    /\ cfg \in Configs
    /\ tnet \in Nets
    /\ tret = NotCalled
    /\ rows = <<>>
    /\ limit = NoLimit
    /\ network = {}
    /\ pc = "idle"
    /\ submitted = <<>>
    /\ fstate = <<>>
    /\ outcome = <<>>
    /\ yielded = {}
    /\ file = <<>>
    /\ console = 0

CallTestProxy ==
    /\ tret = NotCalled
    /\ pc = "idle"
    /\ tret' = test_proxy(trow, cfg, tnet)
    /\ UNCHANGED <<trow, tnet, cfg>>
    /\ UNCHANGED batchVars

NextTester == CallTestProxy

SpecTester == InitTester /\ [][NextTester]_vars

-----------------------------------------------------------------------------
(* Properties of process_proxies *)

RowsOf(i) == {k \in 1..Len(file) : file[k].kind = "row" /\ file[k].src = i}

\* C1: when the batch has returned and no task-collection error was logged,
\* the output file holds the header and exactly one result row for every
\* submitted record, whatever the completion order.
C1_OneRowPerRecord ==
    (pc = "done" /\ console = 0) =>
        /\ Len(file) = Len(submitted) + 1
        /\ \A i \in 1..Len(submitted) : Cardinality(RowsOf(i)) = 1

C1_Witness ==
    /\ pc = "done"
    /\ console = 0
    /\ Len(submitted) >= 3
    /\ file[2].src = 3
    /\ file[2].cells.status # file[3].cells.status

IsPrefix(a, b) == Len(a) <= Len(b) /\ SubSeq(b, 1, Len(a)) = a

\* C4: a future whose result raises costs only its own row: the loop goes
\* on, at the end every future that returned has exactly one row and every
\* future that raised has none, and rows once written stay in the file.
C4_ErrorSkipsOnlyItsRow ==
    /\ [](pc = "done" =>
            /\ yielded = 1..Len(submitted)
            /\ \A i \in 1..Len(submitted) :
                 Cardinality(RowsOf(i)) = IF outcome[i].kind = "return" THEN 1 ELSE 0)
    /\ [][IsPrefix(file, file')]_vars

C4_Witness ==
    /\ pc = "done"
    /\ console = 1
    /\ Len(submitted) >= 3
    /\ outcome[2].kind = "raise"
    /\ RowsOf(1) # {} /\ RowsOf(3) # {} /\ RowsOf(2) = {}

\* C5: the records submitted are the first min(limit, M) records of the
\* file in file order, for every limit 0, 1, 2, ...; all M without a limit.
C5_FirstMinRecords ==
    /\ pc # "start" =>
         submitted = IF limit = NoLimit THEN rows
                     ELSE SubSeq(rows, 1, Min(limit, Len(rows)))
    /\ pc \in {"collect", "done"} => Len(fstate) = Len(submitted)

\* C8: never more than five test_proxy calls run at once, and a call starts
\* only while fewer than five are running.
C8_AtMostFiveRunning ==
    /\ [](Cardinality(Running) <= 5)
    /\ [][\A i \in DOMAIN fstate :
            (fstate[i] = "pending" /\ fstate'[i] = "running")
                => Cardinality(Running) <= 4]_vars

C8_Witness ==
    /\ Cardinality(Running) = 5
    /\ \E i \in DOMAIN fstate : fstate[i] = "pending"

\* C9: the header is in the file before any worker starts, a result row is
\* in the file only when its own test has completed, and every change of
\* the file is one row appended by a step of the orchestrating thread, in
\* which no worker moves.
C9_WritesSerialized ==
    /\ []((\E i \in DOMAIN fstate : fstate[i] # "pending")
            => (Len(file) >= 1 /\ file[1].kind = "header"))
    /\ [](\A k \in 1..Len(file) :
            file[k].kind = "row" => (k > 1 /\ fstate[file[k].src] = "finished"))
    /\ [][file' # file =>
            /\ Len(file') = Len(file) + 1
            /\ pc \in {"open", "collect"}
            /\ fstate' = fstate /\ outcome' = outcome]_vars

C9_Witness ==
    /\ pc = "collect"
    /\ Len(file) = 2
    /\ \E i \in DOMAIN fstate : fstate[i] = "running"
    /\ \E i \in DOMAIN fstate : fstate[i] = "finished" /\ i \notin yielded

\* C10: under fair scheduling the batch returns, and when it has returned
\* every submitted call has run to completion and been consumed by the loop.
C10_BatchTerminates ==
    /\ <>(pc = "done")
    /\ \A n \in 1..MaxRows :
         (n \in DOMAIN fstate) ~> (n \in DOMAIN fstate /\ fstate[n] = "finished" /\ n \in yielded)
    /\ [](pc = "done" =>
            /\ DOMAIN fstate = 1..Len(submitted)
            /\ \A i \in DOMAIN fstate : fstate[i] = "finished" /\ i \in yielded)

C10_Witness ==
    /\ pc = "done"
    /\ Len(submitted) >= 2
    /\ console >= 1
    /\ Len(file) >= 2

-----------------------------------------------------------------------------
(* Properties of test_proxy *)

\* the status of the response the request obtained, 0 when it obtained none
ObtainedStatus(net) ==
    IF net.kind = "response" THEN net.code
    ELSE IF net.cls = "HTTPError" THEN (IF net.eresp = -1 THEN 0 ELSE net.eresp)
    ELSE IF net.cls \in {"ProxyError", "ConnectionError", "SSLError", "ConnectTimeout"}
         THEN extract_status_from_error(net.msg)
    ELSE 0

\* C2: the returned status is 0 exactly when no response with a status of
\* 200 or more was obtained.
C2_StatusZeroIff ==
    tret.kind = "return" => (tret.result.status = 0 <=> ObtainedStatus(tnet) < 200)

\* C3: test_proxy never raises to its caller.
C3_NeverRaises == tret.kind # "raise"

TagOf(cls) ==
    CASE cls = "HTTPError" -> HTTPErrorTag
      [] cls = "ProxyError" -> ProxyErrorTag
      [] cls \in {"ConnectionError", "SSLError", "ConnectTimeout"} -> ConnectionErrorTag
      [] cls = "ReadTimeout" -> TimeoutErrorTag
      [] cls \in {"InvalidURL", "JSONDecodeError"} -> RequestExceptionTag

\* C3 as amended: test_proxy raises exactly when the record has no key for
\* the configured proxy field, or a protocol field is configured and the
\* record has no key for it or holds None there; in every other case it
\* returns a ProxyResult, and a request exception of one of the five handled
\* kinds is encoded as the kind's tag followed by the message, with status 0
\* for timeouts and other request exceptions.
C3_RaisesOnlyOnMissingField ==
    tret.kind # "none" =>
        /\ (tret.kind = "raise") <=>
              \/ "proxy" \notin DOMAIN trow
              \/ /\ cfg.protocol_field = "Https"
                 /\ ("Https" \notin DOMAIN trow \/ trow["Https"] = None)
        /\ (/\ tret.kind = "return"
            /\ tnet.cls \in {"HTTPError", "ProxyError", "ConnectionError", "SSLError",
                             "ConnectTimeout", "ReadTimeout", "InvalidURL", "JSONDecodeError"}
            /\ (tnet.cls = "HTTPError" => tnet.eresp # -1))
           => /\ tret.result.error = TagOf(tnet.cls) \o tnet.msg
              /\ (tnet.cls \in {"ReadTimeout", "InvalidURL", "JSONDecodeError"}
                    => tret.result.status = 0)

C3_Witness ==
    /\ tret.kind = "return"
    /\ tnet.cls = "ProxyError"
    /\ tnet.msg = MsgStatus502
    /\ tret.result.status = 502
    /\ tret.result.error = ProxyErrorTag \o MsgStatus502

YesAnyCase ==
    {<<a, b, c>> : a \in {"y", "Y"}, b \in {"e", "E"}, c \in {"s", "S"}}

\* C6: the proxy field of the result is "https://" + address when the
\* configured protocol field holds "yes" in any case, "http://" + address
\* for any other value, and the address field itself when no protocol field
\* is configured.
C6_ProxyUrl ==
    tret.kind = "return" =>
        tret.result.proxy =
            IF cfg.protocol_field = "Https"
            THEN (IF trow["Https"] \in YesAnyCase
                  THEN <<"h", "t", "t", "p", "s", ":", "/", "/">>
                  ELSE <<"h", "t", "t", "p", ":", "/", "/">>)
                 \o (IF trow["proxy"] = None THEN NoneText ELSE trow["proxy"])
            ELSE trow["proxy"]

C6_Witness ==
    /\ tret.kind = "return"
    /\ cfg.protocol_field = "Https"
    /\ trow["Https"] = <<"Y", "E", "S">>
    /\ tret.result.proxy = <<"h", "t", "t", "p", "s", ":", "/", "/">> \o Addr

\* C7: when the request succeeds the status is the response status code
\* (a code under 200 reads 0, as the last lines of test_proxy that the claim
\* cites leave it) and real_location is the timezone of the response JSON,
\* "Unknown" if the field is absent; real_location is "Failed" only when no
\* response came back from the diagnostic endpoint.
C7_SuccessFields ==
    tret.kind = "return" =>
        /\ (tnet.kind = "response" /\ tnet.json = "object") =>
              /\ tret.result.status = IF tnet.code >= 200 THEN tnet.code ELSE 0
              /\ tret.result.real_location = IF tnet.hasTz THEN tnet.tz ELSE Unknown
        /\ tret.result.real_location = Failed => tnet.kind # "response"

=============================================================================
